---------------------------- MODULE Spec2Model ----------------------------
(***************************************************************************)
(* State-change reconciliation of AzureDevOpsService                       *)
(* (src/src/services/azure_devops_service.py): the per-item update cache,  *)
(* the generic result cache, get_work_item_updates, the loop of            *)
(* analyze_state_changes and the loop of _get_unique_work_item_ids, one    *)
(* action per loop step, and steps 2 and 3 of the analyzer page            *)
(* (src/src/pages/app.py).                                                 *)
(*                                                                         *)
(* Text values.  A StateChangeDate string is a sequence of tokens: a token *)
(* of DateTexts is a well-formed 'YYYY-MM-DDTHH:MM:SS' text, the others    *)
(* are single characters.  The empty sequence stands for a value Python    *)
(* finds falsy (field missing, newValue missing, None or '').              *)
(* Times are whole seconds.                                                *)
(***************************************************************************)
EXTENDS Integers, Sequences, FiniteSets, TLC

(***************************************************************************)
(* Bounds of the model.                                                    *)
(***************************************************************************)
\* most change records the upstream holds over all work items together
MaxRecords == 2
\* most calls of analyze_state_changes in one behaviour
MaxRuns == 2
\* the clock runs over the seconds next to 0, 1, .. MaxEpoch cache durations
MaxEpoch == 1
\* most revisions the upstream holds over all projects and days together
MaxRevisions == 2

(***************************************************************************)
(* Program constants.                                                      *)
(***************************************************************************)
\* self.cache_duration
cache_duration == 3600

NONE == "None"
NA == "N/A"

\* the work items of the upstream, and the states a record can report
Ids == {101, 202}
States == {"Active", "Resolved"}

\* well-formed date-time texts and the second each denotes
DateTexts == {"T1", "T2"}
SecondsOf == [c \in DateTexts |-> IF c = "T1" THEN 1 ELSE 2]

\* the raw StateChangeDate strings the upstream can hold
DateStrs ==
    { <<"T1">>,                  \* '...:01'
      <<"T1", ".", "0", "Z">>,   \* '...:01.0Z', the same instant
      <<"T2", "Z">>,             \* '...:02Z'
      <<"T2", "x">>,             \* trailing garbage: strptime fails
      <<>> }                     \* no field / no newValue / None / ''

\* a change record as the upstream returns it: the System.State new value
\* (NONE: no System.State delta, or no newValue) and the StateChangeDate
Updates ==
    { [state |-> "Active", date |-> d] : d \in DateStrs }
        \cup { [state |-> "Resolved", date |-> <<"T1">>],
               [state |-> NONE, date |-> <<"T1">>] }

\* the host's zone as an offset from UTC in seconds (get_localzone), and
\* the offsets a timezone-aware argument can carry
HostOffset == 0 - 18000
Offsets == {0, HostOffset}

\* the datetimes a caller passes as start_date / end_date: a wall-clock
\* reading, with or without tzinfo
Datetimes ==
    { [wall |-> t + o, aware |-> TRUE, offset |-> o] :
          t \in {1, 2}, o \in Offsets }
        \cup { [wall |-> t + HostOffset, aware |-> FALSE, offset |-> 0] :
                   t \in {1, 2} }

\* the datetimes the analyzer page passes (src/src/pages/app.py lines
\* 42-43): datetime.combine(date, time) carries no tzinfo.  The wall clock
\* 1 stands for the start date's 00:00:00 and 2 for the end date's
\* 23:59:59.999999.
PageDatetimes == { d \in Datetimes : ~d.aware }

\* selected_states as the caller passes it (a list)
StateLists == { <<>>, <<"Active">>, <<"Resolved", "Active">> }

\* the order in which the set work_item_ids is iterated (the items are
\* alike, so one order stands for both)
IdOrders == { <<101, 202>> }

\* what the upstream answers to the updates request of one item: an HTTP or
\* network error; the updates, with the details request answered too; the
\* updates, with the details request failing
Responses == {"error", "ok", "ok_no_details"}

\* the projects of the upstream and the days a scan can cover
Projects == {"P1", "P2"}
Days == {1, 2}
Cells == Projects \X Days

\* a revision as the reporting API returns it: System.WorkItemType (NONE:
\* the field is missing) and System.Id (0: missing, a value Python finds
\* falsy)
RevisionRecords ==
    { [type |-> "Bug", id |-> 101], [type |-> "Bug", id |-> 202],
      [type |-> "Task", id |-> 101], [type |-> "Bug", id |-> 0],
      [type |-> NONE, id |-> 202] }

\* team_projects and work_item_types as the caller passes them (lists)
ProjectLists == { <<"P1">>, <<"P1", "P2">> }
TypeLists == { <<"Bug">>, <<"Task", "Bug">> }

(***************************************************************************)
(* Text functions.                                                         *)
(***************************************************************************)
\* str.replace(c, ''): every occurrence of c removed
RECURSIVE Remove(_, _)
Remove(s, c) ==
    IF s = <<>> THEN <<>>
    ELSE IF Head(s) = c THEN Remove(Tail(s), c)
    ELSE <<Head(s)>> \o Remove(Tail(s), c)

\* str.split(c)[0]: the text before the first c
RECURSIVE SplitFirst(_, _)
SplitFirst(s, c) ==
    IF s = <<>> THEN <<>>
    ELSE IF Head(s) = c THEN <<>>
    ELSE <<Head(s)>> \o SplitFirst(Tail(s), c)

\* mutant of Strptime: text after the date-time is ignored
StrptimeLenient(s) ==
    IF Len(s) >= 1 /\ s[1] \in DateTexts
    THEN [ok |-> TRUE, t |-> SecondsOf[s[1]]]
    ELSE [ok |-> FALSE, t |-> 0]

\* datetime.strptime(s, '%Y-%m-%dT%H:%M:%S'): the second denoted, or
\* ValueError (ok = FALSE) for anything but exactly one well-formed text
Strptime(s) ==
    IF Len(s) = 1 /\ s[1] \in DateTexts
    THEN [ok |-> TRUE, t |-> SecondsOf[s[1]]]
    ELSE [ok |-> FALSE, t |-> 0]

\* lines 245-247: clean the raw string, parse it, take it as UTC
ParseDate(raw) == Strptime(SplitFirst(Remove(raw, "Z"), "."))

\* tz.localize(d): the zone is attached to the wall clock as it reads
Localize(d, tz) == [wall |-> d.wall, aware |-> TRUE, offset |-> tz]

\* d.astimezone(tz) of an aware d: the same instant read on the clock of tz
AsTimezone(d, tz) ==
    [wall |-> d.wall - d.offset + tz, aware |-> TRUE, offset |-> tz]

\* mutant of LocalOf: the host zone is attached to every argument's wall
\* clock, aware or not
LocalOfRelocalized(d) == Localize(d, HostOffset)

\* lines 199-207: local_start / local_end
LocalOf(d) ==
    IF ~d.aware THEN Localize(d, HostOffset) ELSE AsTimezone(d, HostOffset)

\* lines 199-210: start_utc / end_utc, as the second of the UTC clock
ToUtc(d) == AsTimezone(LocalOf(d), 0).wall

(***************************************************************************)
(* The cache tests.                                                        *)
(***************************************************************************)
\* mutant of CacheFresh: the age of an entry is not looked at
CacheFreshAlways(timestamp, t) == TRUE

\* mutant of CacheFresh: an entry exactly cache_duration old still counts
CacheFreshInclusive(timestamp, t) == t - timestamp <= cache_duration

\* lines 45 and 152: time.time() - cached['timestamp'] < self.cache_duration
CacheFresh(timestamp, t) == t - timestamp < cache_duration


(***************************************************************************)
(* State.                                                                  *)
(***************************************************************************)
VARIABLES
    upstream,                \* the upstream's change records of each item
    revisions,               \* the upstream's revisions of each project and day
    now,                     \* time.time(), in seconds
    work_item_updates_cache, \* self.work_item_updates_cache
    cache,                   \* self.cache
    lookup,                  \* the last _get_cached_result: key, time, value
    calls_since_sleep,       \* outbound calls since the last time.sleep of
                             \* the service (2: two or more)
    pc,                      \* where the service call in progress stands
    work_item_ids,           \* argument of analyze_state_changes, in
                             \* iteration order
    selected_states,         \* its argument
    start_date, end_date,    \* its arguments
    start_utc, end_utc,      \* the window it computed
    idx,                     \* the item of the outer loop (from 1)
    updates,                 \* the updates of the item at hand
    upos,                    \* the update of the inner loop (from 1)
    state_analysis,          \* the aggregate being built, and returned
    processed_items,         \* the dedup keys seen in this run
    source,                  \* per item of this run: how its updates came
    runs,                    \* calls of analyze_state_changes so far
    previous,                \* the call before this one: its sources and result
    team_projects,           \* argument of _get_unique_work_item_ids
    work_item_types,         \* its argument
    first_date,              \* start_date.date() of its argument
    end_date_only,           \* end_date.date() of its argument
    current_date,            \* the day of its outer loop
    project,                 \* the project of its inner loop (from 1)
    requested,               \* per (project, day): how its request ended
    unique_ids,              \* the set it builds, and returns
    step2                    \* the analyzer page: how each item's updates
                             \* came in step 2

vars ==
    << upstream, revisions, now, work_item_updates_cache, cache, lookup,
       calls_since_sleep, pc, work_item_ids, selected_states, start_date,
       end_date, start_utc, end_utc, idx, updates, upos, state_analysis,
       processed_items, source, runs, previous, team_projects,
       work_item_types, first_date, end_date_only, current_date, project,
       requested, unique_ids, step2 >>

cacheVars == << work_item_updates_cache, cache, lookup >>
runVars ==
    << pc, work_item_ids, selected_states, start_date, end_date, start_utc,
       end_utc, idx, updates, upos, state_analysis, processed_items, source,
       runs, previous >>
scanVars ==
    << revisions, team_projects, work_item_types, first_date, end_date_only,
       current_date, project, requested, unique_ids >>

(***************************************************************************)
(* get_work_item_details and get_work_item_updates.                        *)
(***************************************************************************)
\* lines 89, 123 and 159: requests.get(url, headers=..., params=...) is
\* given no timeout
timeout == NONE

\* requests.get facing an upstream that answers ("error", "ok", ...) or
\* never does ("silent"): with a timeout the silence ends as a Timeout, a
\* RequestException like any other; with none the call never returns
RequestsGet(answer) ==
    IF answer # "silent" THEN answer
    ELSE IF timeout = NONE THEN "blocked"
    ELSE "error"

\* the outbound calls get_work_item_updates made: none when the cache
\* served (line 153), the updates request alone when it failed (line 159),
\* else the updates request and the details request (lines 159 and 123)
CallsMade(src) ==
    CASE src = "cache" -> 0
      [] src = "failed" -> 1
      [] OTHER -> 2

\* calls_since_sleep after that many more calls
AfterCalls(n, calls) == IF n + calls > 2 THEN 2 ELSE n + calls

\* lines 114-140: the details of an item, {} when the request fails
GetWorkItemDetails(response) ==
    IF response = "ok" THEN "details" ELSE "empty"

\* lines 165-170: each update carries the item's details
Enrich(raw, details) ==
    [i \in 1..Len(raw) |->
        [state |-> raw[i].state, date |-> raw[i].date, details |-> details]]

\* mutant of StoredEntry: the updates are stored as received, without the
\* details attached
StoredEntryBare(enriched, stored_at) ==
    [updates |-> [i \in 1..Len(enriched) |->
                     [enriched[i] EXCEPT !.details = "empty"]],
     timestamp |-> stored_at]

\* lines 173-176: the entry stored after a successful fetch, stamped with
\* the time read once the two requests are answered
StoredEntry(enriched, stored_at) ==
    [updates |-> enriched, timestamp |-> stored_at]

\* mutant of OnRequestError: the error is raised again, as get_team_projects
\* (line 36) does
OnRequestErrorRaise(cch) ==
    [updates |-> <<>>, cache |-> cch, source |-> "failed", flow |-> "raise"]

\* lines 180-182: a failed request is logged and an empty list returned
OnRequestError(cch) ==
    [updates |-> <<>>, cache |-> cch, source |-> "failed", flow |-> "return"]

\* mutant of CacheHit: the cache is never consulted
CacheMiss(cch, id, t) == FALSE

\* lines 150-153: the entry of an item is present and fresh
CacheHit(cch, id, t) ==
    id \in DOMAIN cch /\ CacheFresh(cch[id].timestamp, t)

\* mutant of GetWorkItemUpdates: a failed request stores its empty list
GetWorkItemUpdatesCachingFailure(cch, id, t, response, stored_at) ==
    IF CacheHit(cch, id, t)
    THEN [updates |-> cch[id].updates, cache |-> cch, source |-> "cache",
          flow |-> "return"]
    ELSE LET got == IF response = "error" THEN <<>>
                    ELSE Enrich(upstream[id], GetWorkItemDetails(response))
         IN  [updates |-> got,
              cache |-> [i \in DOMAIN cch \cup {id} |->
                            IF i = id THEN StoredEntry(got, stored_at)
                            ELSE cch[i]],
              source |-> IF response = "error" THEN "failed" ELSE response,
              flow |-> "return"]

\* lines 147-182, called at time t and, when it asks the upstream, answered
\* by time stored_at: the updates returned, the cache afterwards, and
\* whether the updates came from the cache, from the upstream, or the
\* request failed
GetWorkItemUpdates(cch, id, t, response, stored_at) ==
    IF CacheHit(cch, id, t)
    THEN [updates |-> cch[id].updates, cache |-> cch, source |-> "cache",
          flow |-> "return"]
    ELSE IF response = "error" THEN OnRequestError(cch)
    ELSE LET enriched == Enrich(upstream[id], GetWorkItemDetails(response))
         IN  [updates |-> enriched,
              cache |-> [i \in DOMAIN cch \cup {id} |->
                            IF i = id THEN StoredEntry(enriched, stored_at)
                            ELSE cch[i]],
              source |-> response,
              flow |-> "return"]


(***************************************************************************)
(* analyze_state_changes: the body of its inner loop.                      *)
(***************************************************************************)
\* mutant of InitAnalysis: one entry per known state, selected or not
InitAnalysisAllStates(sel) ==
    [s \in States |-> [count |-> 0, items |-> <<>>]]

\* line 212: one zeroed entry per selected state
InitAnalysis(sel) ==
    [s \in {sel[i] : i \in 1..Len(sel)} |-> [count |-> 0, items |-> <<>>]]

\* mutant of StateSelected: any state change passes the filter
StateSelectedAny(new_state, sel) == new_state # NONE

\* line 231: new_state in selected_states
StateSelected(new_state, sel) == \E i \in 1..Len(sel) : sel[i] = new_state

\* mutant of IsWithinRange: the bounds are excluded
IsWithinRangeExclusive(state_date, s, e) == s < state_date /\ state_date < e

\* line 252: start_utc <= state_date <= end_utc
IsWithinRange(state_date, s, e) == s <= state_date /\ state_date <= e

\* mutant of ItemKey: the key holds the cleaned date text of line 245
ItemKeyCleaned(id, u) ==
    <<id, u.state, SplitFirst(Remove(u.date, "Z"), ".")>>

\* line 261: the dedup key
ItemKey(id, u) == <<id, u.state, u.date>>

\* mutant of IsNewKey: no dedup
IsNewKeyAlways(key, processed) == TRUE

\* lines 263-264: the key was not seen in this run
IsNewKey(key, processed) == key \notin processed

\* mutant of ItemRecord: the field new_state is filled with the old state
\* (line 272, 'N/A' when the record names none)
ItemRecordOldState(id, u) ==
    [id |-> id, date |-> u.date, new_state |-> NA,
     project |-> IF u.details = "details" THEN "Proj" ELSE NA]

\* lines 267-294: the detail record appended (project stands for the fields
\* taken from the attached details, 'N/A' when there are none)
ItemRecord(id, u) ==
    [id |-> id, date |-> u.date, new_state |-> u.state,
     project |-> IF u.details = "details" THEN "Proj" ELSE NA]

\* mutant of Accumulate: the record is inserted at the head of the list
AccumulateFront(an, id, u) ==
    [an EXCEPT ![u.state] =
        [count |-> @.count + 1, items |-> <<ItemRecord(id, u)>> \o @.items]]

\* mutant of Accumulate: the count is set to 1, not incremented
AccumulateCountSet(an, id, u) ==
    [an EXCEPT ![u.state] =
        [count |-> 1, items |-> Append(@.items, ItemRecord(id, u))]]

\* lines 282-294: count += 1 and items.append(...) under the key new_state
Accumulate(an, id, u) ==
    [an EXCEPT ![u.state] =
        [count |-> @.count + 1, items |-> Append(@.items, ItemRecord(id, u))]]

\* mutant of OnValueError: the exception leaves the function
OnValueErrorRaise(an, processed) ==
    [analysis |-> an, processed |-> processed, flow |-> "raise"]

\* lines 248-250: a ValueError of the parse is logged, the record skipped
OnValueError(an, processed) ==
    [analysis |-> an, processed |-> processed, flow |-> "continue"]

\* mutant of DateMissing: the tests of lines 236 and 240 are left out
DateMissingNever(date) == FALSE

\* lines 235-241: there is no StateChangeDate field, or it has no newValue
DateMissing(date) == date = <<>>

\* lines 222-294, one iteration: the aggregate and the key set afterwards,
\* and whether the loop goes on or an exception leaves the function
StepUpdate(an, processed, id, u, sel, s, e) ==
    LET skip == [analysis |-> an, processed |-> processed, flow |-> "continue"]
        raise == [analysis |-> an, processed |-> processed, flow |-> "raise"]
        parsed == ParseDate(u.date)
        key == ItemKey(id, u)
    IN  IF u.state = NONE THEN skip
        ELSE IF ~StateSelected(u.state, sel) THEN skip
        ELSE IF DateMissing(u.date) THEN skip
        \* lines 239 and 245 applied to None: an AttributeError, which
        \* line 248 does not catch
        ELSE IF u.date = <<>> THEN raise
        ELSE IF ~parsed.ok THEN OnValueError(an, processed)
        ELSE IF ~IsWithinRange(parsed.t, s, e) THEN skip
        ELSE IF ~IsNewKey(key, processed) THEN skip
        ELSE IF u.state \notin DOMAIN an
        THEN [raise EXCEPT !.processed = processed \cup {key}]
        ELSE [analysis |-> Accumulate(an, id, u),
              processed |-> processed \cup {key},
              flow |-> "continue"]


\* lines 222-294 over a whole updates list
RECURSIVE ScanUpdates(_, _, _, _, _, _)
ScanUpdates(acc, id, ups, sel, s, e) ==
    IF ups = <<>> THEN acc
    ELSE LET r == StepUpdate(acc.analysis, acc.processed, id, Head(ups),
                             sel, s, e)
         IN  ScanUpdates([analysis |-> r.analysis, processed |-> r.processed],
                         id, Tail(ups), sel, s, e)

\* lines 217-296 over the items ids, served[id] being the updates
\* get_work_item_updates returns for id
RECURSIVE ScanItems(_, _, _, _, _, _)
ScanItems(acc, ids, served, sel, s, e) ==
    IF ids = <<>> THEN acc
    ELSE ScanItems(ScanUpdates(acc, Head(ids), served[Head(ids)], sel, s, e),
                   Tail(ids), served, sel, s, e)

\* lines 212-299: the aggregate returned over the updates served
Reconcile(ids, served, sel, s, e) ==
    ScanItems([analysis |-> InitAnalysis(sel), processed |-> {}],
              ids, served, sel, s, e).analysis

(***************************************************************************)
(* The initial state: a service just constructed (lines 16-26), over an    *)
(* upstream holding at most MaxRecords change records.                     *)
(***************************************************************************)
Histories(n) == UNION { [1..k -> Updates] : k \in 0..n }

NoSource == [i \in Ids |-> "none"]
NoLookup == [key |-> NONE, at |-> 0, value |-> NONE]
NoPrevious ==
    [set |-> FALSE, source |-> NoSource, result |-> InitAnalysis(<<>>)]
NoDatetime == [wall |-> 0, aware |-> TRUE, offset |-> 0]
NoRevisions == [c \in Cells |-> <<>>]
NoRequests == [c \in Cells |-> "none"]

Init ==
    /\ \E n \in 0..MaxRecords :
         \E a \in Histories(n) :
           \E b \in Histories(MaxRecords - Len(a)) :
             upstream = (101 :> a @@ 202 :> b)
    /\ now = 0
    /\ work_item_updates_cache = << >>
    /\ cache = << >>
    /\ lookup = NoLookup
    /\ pc = "idle"
    /\ work_item_ids = <<>>
    /\ selected_states = <<>>
    /\ start_utc = 0
    /\ end_utc = 0
    /\ idx = 1
    /\ updates = <<>>
    /\ upos = 1
    /\ state_analysis = InitAnalysis(<<>>)
    /\ processed_items = {}
    /\ source = NoSource
    /\ runs = 0
    /\ previous = NoPrevious
    /\ revisions = NoRevisions
    /\ calls_since_sleep = 0
    /\ start_date = NoDatetime
    /\ end_date = NoDatetime
    /\ team_projects = <<>>
    /\ work_item_types = <<>>
    /\ first_date = 1
    /\ end_date_only = 1
    /\ current_date = 1
    /\ project = 1
    /\ requested = NoRequests
    /\ unique_ids = {}
    /\ step2 = NoSource

(***************************************************************************)
(* analyze_state_changes, step by step.                                    *)
(***************************************************************************)
\* lines 184-215: the call, up to the first iteration of the outer loop
\* (start_date and end_date are datetimes, as the pages pass them)
Call(order, sel, sd, ed) ==
    /\ pc = "idle"
    /\ runs' = runs + 1
    /\ work_item_ids' = order
    /\ selected_states' = sel
    /\ start_date' = sd
    /\ end_date' = ed
    /\ start_utc' = ToUtc(sd)
    /\ end_utc' = ToUtc(ed)
    /\ state_analysis' = InitAnalysis(sel)
    /\ processed_items' = {}
    /\ idx' = 1
    /\ updates' = <<>>
    /\ upos' = 1
    /\ source' = NoSource
    /\ pc' = "item"
    /\ UNCHANGED << upstream, now, cacheVars, calls_since_sleep, previous,
                    scanVars, step2 >>

\* lines 217-220: the next item's updates are obtained
FetchItem(response, stored_at) ==
    /\ pc = "item"
    /\ idx <= Len(work_item_ids)
    /\ stored_at >= now
    /\ LET id == work_item_ids[idx]
           got == GetWorkItemUpdates(work_item_updates_cache, id, now,
                                     response, stored_at)
       IN  /\ work_item_updates_cache' = got.cache
           /\ now' = IF got.source = "cache" THEN now ELSE stored_at
           /\ updates' = got.updates
           /\ source' = [source EXCEPT ![id] = got.source]
           /\ calls_since_sleep' =
                  AfterCalls(calls_since_sleep, CallsMade(got.source))
           /\ pc' = IF got.flow = "return" THEN "update" ELSE "raised"
    /\ upos' = 1
    /\ UNCHANGED << upstream, cache, lookup, work_item_ids,
                    selected_states, start_date, end_date, start_utc, end_utc,
                    idx, state_analysis, processed_items, runs, previous,
                    scanVars, step2 >>

\* lines 217-220 when the upstream never answers the updates request or the
\* details request of the next item
FetchItemSilent ==
    /\ pc = "item"
    /\ idx <= Len(work_item_ids)
    /\ ~CacheHit(work_item_updates_cache, work_item_ids[idx], now)
    /\ IF RequestsGet("silent") = "blocked"
       THEN /\ pc' = "blocked"
            /\ calls_since_sleep' = AfterCalls(calls_since_sleep, 1)
            /\ UNCHANGED << upstream, now, cacheVars, work_item_ids,
                            selected_states, start_date, end_date, start_utc,
                            end_utc, idx, updates, upos, state_analysis,
                            processed_items, source, runs, previous,
                            scanVars, step2 >>
       ELSE FetchItem(RequestsGet("silent"), now)

\* lines 222-294: one update of the item is examined
ProcessUpdate ==
    /\ pc = "update"
    /\ upos <= Len(updates)
    /\ LET r == StepUpdate(state_analysis, processed_items,
                           work_item_ids[idx], updates[upos],
                           selected_states, start_utc, end_utc)
       IN  /\ state_analysis' = r.analysis
           /\ processed_items' = r.processed
           /\ pc' = IF r.flow = "continue" THEN "update" ELSE "raised"
    /\ upos' = upos + 1
    /\ UNCHANGED << upstream, now, cacheVars, calls_since_sleep,
                    work_item_ids, selected_states, start_date, end_date,
                    start_utc, end_utc, idx, updates, source, runs, previous,
                    scanVars, step2 >>

\* line 296: the item is finished, the rate-limiting sleep, the next item
EndItem ==
    /\ pc = "update"
    /\ upos > Len(updates)
    /\ idx' = idx + 1
    /\ calls_since_sleep' = 0
    /\ pc' = "item"
    /\ UNCHANGED << upstream, now, cacheVars, work_item_ids, selected_states,
                    start_date, end_date, start_utc, end_utc, updates, upos,
                    state_analysis, processed_items, source, runs, previous,
                    scanVars, step2 >>

\* lines 298-299: the aggregate is returned
Return ==
    /\ pc = "item"
    /\ idx > Len(work_item_ids)
    /\ pc' = "done"
    /\ UNCHANGED << upstream, now, cacheVars, calls_since_sleep,
                    work_item_ids, selected_states, start_date, end_date,
                    start_utc, end_utc, idx, updates, upos, state_analysis,
                    processed_items, source, runs, previous, scanVars,
                    step2 >>

\* a later call on the same service with the arguments of the call before
Recall ==
    /\ pc = "done"
    /\ runs < MaxRuns
    /\ runs' = runs + 1
    /\ state_analysis' = InitAnalysis(selected_states)
    /\ processed_items' = {}
    /\ idx' = 1
    /\ updates' = <<>>
    /\ upos' = 1
    /\ source' = NoSource
    /\ pc' = "item"
    /\ previous' = [set |-> TRUE, source |-> source, result |-> state_analysis]
    /\ UNCHANGED << upstream, now, cacheVars, calls_since_sleep,
                    work_item_ids, selected_states, start_date, end_date,
                    start_utc, end_utc, scanVars, step2 >>

(***************************************************************************)
(* The clock, the generic cache, and get_work_item_updates called on its   *)
(* own (src/src/pages/app.py line 100).                                    *)
(***************************************************************************)
\* the readings of time.time() the model follows
ClockValues ==
    { t \in { k * cache_duration + d : k \in 0..MaxEpoch, d \in {-1, 0, 1} } :
        t >= 0 }

\* time passes; the inner loop reads no clock, so the time its steps take
\* is seen at the next item
Tick ==
    /\ pc # "update"
    /\ \E t \in ClockValues : t > now /\ now' = t
    /\ UNCHANGED << upstream, cacheVars, calls_since_sleep, runVars,
                    scanVars, step2 >>

CacheKeys == {"f:1", "f:2"}
CacheValues == {"r1"}

\* lines 41-47: the stored result, or None
GetCachedResult(cch, key, t) ==
    IF key \in DOMAIN cch /\ CacheFresh(cch[key].timestamp, t)
    THEN cch[key].result
    ELSE NONE

\* lines 49-55
CacheResult(key, result) ==
    /\ cache' = [k \in DOMAIN cache \cup {key} |->
                    IF k = key THEN [result |-> result, timestamp |-> now]
                    ELSE cache[k]]
    /\ UNCHANGED << upstream, now, work_item_updates_cache, lookup,
                    calls_since_sleep, runVars, scanVars, step2 >>

\* a call of _get_cached_result; lookup keeps what it returned
Lookup(key) ==
    /\ lookup' = [key |-> key, at |-> now,
                  value |-> GetCachedResult(cache, key, now)]
    /\ UNCHANGED << upstream, now, work_item_updates_cache, cache,
                    calls_since_sleep, runVars, scanVars, step2 >>

\* lines 147-182 run outside analyze_state_changes: what it changes
UpdatesCall(id, response, stored_at) ==
    /\ pc = "idle"
    /\ stored_at >= now
    /\ LET got == GetWorkItemUpdates(work_item_updates_cache, id, now,
                                     response, stored_at)
       IN  /\ work_item_updates_cache' = got.cache
           /\ now' = IF got.source = "cache" THEN now ELSE stored_at
           /\ updates' = got.updates
           /\ source' = [source EXCEPT ![id] = got.source]
           /\ calls_since_sleep' =
                  AfterCalls(calls_since_sleep, CallsMade(got.source))
    /\ UNCHANGED << upstream, cache, lookup, pc, work_item_ids,
                    selected_states, start_date, end_date, start_utc, end_utc,
                    idx, upos, state_analysis, processed_items, runs,
                    previous, scanVars >>

\* get_work_item_updates called outside analyze_state_changes
GetUpdatesCall(id, response, stored_at) ==
    /\ UpdatesCall(id, response, stored_at)
    /\ UNCHANGED step2

(***************************************************************************)
(* The analyzer page (src/src/pages/app.py), steps 2 and 3.                *)
(***************************************************************************)
\* line 98: work_item_ids, in the order both steps iterate it
PageOrder == <<101, 202>>

\* lines 99-101: step 2 asks for the updates of the next item and drops
\* what it gets
Step2(response, stored_at) ==
    \E k \in 1..Len(PageOrder) :
        /\ step2[PageOrder[k]] = "none"
        /\ \A j \in 1..(k - 1) : step2[PageOrder[j]] # "none"
        /\ UpdatesCall(PageOrder[k], response, stored_at)
        /\ step2' = [step2 EXCEPT ![PageOrder[k]] = source'[PageOrder[k]]]

\* lines 103-114: step 2 is through, step 3 calls analyze_state_changes
Step3(sel, sd, ed) ==
    /\ \A id \in Ids : step2[id] # "none"
    /\ Call(PageOrder, sel, sd, ed)

(***************************************************************************)
(* _get_unique_work_item_ids, step by step.                                *)
(***************************************************************************)
\* mutant of TypeMatches: the type filter is left out
TypeMatchesAny(wit, types) == TRUE

\* line 98: wit in work_item_types
TypeMatches(wit, types) == \E i \in 1..Len(types) : types[i] = wit

\* lines 93-101: the ids one answer adds to unique_ids
IdsOf(values, types) ==
    { values[i].id :
        i \in { j \in 1..Len(values) :
                  /\ TypeMatches(values[j].type, types)
                  /\ values[j].id # 0 } }

\* lines 57-71: the call, up to the first test of the outer loop; only the
\* day of start_date and of end_date is used
ScanCall(projects, types, start_day, end_day) ==
    /\ pc = "idle"
    /\ team_projects' = projects
    /\ work_item_types' = types
    /\ unique_ids' = {}
    /\ first_date' = start_day
    /\ current_date' = start_day
    /\ end_date_only' = end_day
    /\ project' = 1
    /\ requested' = NoRequests
    /\ pc' = "scan"
    /\ UNCHANGED << upstream, revisions, now, cacheVars, calls_since_sleep,
                    work_item_ids, selected_states, start_date, end_date,
                    start_utc, end_utc, idx, updates, upos, state_analysis,
                    processed_items, source, runs, previous, step2 >>

\* lines 79-101 and 105-107: the revisions of the next project are asked
\* for; an answer is read into unique_ids, a failure is logged and the loop
\* goes on with the next project
RequestRevisions(answer) ==
    /\ pc = "scan"
    /\ current_date <= end_date_only
    /\ project <= Len(team_projects)
    /\ LET cell == <<team_projects[project], current_date>>
       IN  /\ requested' = [requested EXCEPT ![cell] = answer]
           /\ calls_since_sleep' = AfterCalls(calls_since_sleep, 1)
           /\ IF answer = "ok"
              THEN /\ unique_ids' =
                        unique_ids \cup IdsOf(revisions[cell], work_item_types)
                   /\ pc' = "scan_sleep"
                   /\ UNCHANGED project
              ELSE /\ project' = project + 1
                   /\ UNCHANGED << unique_ids, pc >>
    /\ UNCHANGED << upstream, revisions, now, cacheVars, work_item_ids,
                    selected_states, start_date, end_date, start_utc, end_utc,
                    idx, updates, upos, state_analysis, processed_items,
                    source, runs, previous, team_projects, work_item_types,
                    first_date, end_date_only, current_date, step2 >>

\* line 103: the rate-limiting sleep after an answer, then the next project
ScanSleep ==
    /\ pc = "scan_sleep"
    /\ calls_since_sleep' = 0
    /\ project' = project + 1
    /\ pc' = "scan"
    /\ UNCHANGED << upstream, revisions, now, cacheVars, work_item_ids,
                    selected_states, start_date, end_date, start_utc, end_utc,
                    idx, updates, upos, state_analysis, processed_items,
                    source, runs, previous, team_projects, work_item_types,
                    first_date, end_date_only, current_date, requested,
                    unique_ids, step2 >>

\* line 109: the projects of the day are done, the next day
NextDay ==
    /\ pc = "scan"
    /\ current_date <= end_date_only
    /\ project > Len(team_projects)
    /\ current_date' = current_date + 1
    /\ project' = 1
    /\ UNCHANGED << upstream, revisions, now, cacheVars, calls_since_sleep,
                    pc, work_item_ids, selected_states, start_date, end_date,
                    start_utc, end_utc, idx, updates, upos, state_analysis,
                    processed_items, source, runs, previous, team_projects,
                    work_item_types, first_date, end_date_only, requested,
                    unique_ids, step2 >>

\* lines 71 and 111-112: the days are done, unique_ids is returned
ScanReturn ==
    /\ pc = "scan"
    /\ current_date > end_date_only
    /\ pc' = "scan_done"
    /\ UNCHANGED << upstream, now, cacheVars, calls_since_sleep, work_item_ids,
                    selected_states, start_date, end_date, start_utc, end_utc,
                    idx, updates, upos, state_analysis, processed_items,
                    source, runs, previous, scanVars, step2 >>

(***************************************************************************)
(* Specifications.                                                         *)
(***************************************************************************)
\* one call of analyze_state_changes on a fresh service, with datetimes as
\* the page builds them, time standing still
CallAny ==
    \E order \in IdOrders, sel \in StateLists, sd, ed \in PageDatetimes :
        Call(order, sel, sd, ed)

Next ==
    \/ CallAny
    \/ \E response \in Responses : FetchItem(response, now)
    \/ ProcessUpdate
    \/ EndItem
    \/ Return

Spec == Init /\ [][Next]_vars

\* repeated calls with the same arguments while time passes: the states
\* Resolved and Active over the seconds 1 to 2, the upstream holding one
\* change record with a state and a date per item
InitRerun ==
    /\ Init
    /\ \A i \in Ids :
         /\ Len(upstream[i]) = 1
         /\ upstream[i][1].state # NONE
         /\ upstream[i][1].date \in {<<"T1">>, <<"T2", "Z">>, <<"T2", "x">>}

CallWide ==
    \E order \in IdOrders :
      Call(order, <<"Resolved", "Active">>,
         [wall |-> 1, aware |-> TRUE, offset |-> 0],
         [wall |-> 2, aware |-> TRUE, offset |-> 0])

NextRerun ==
    \/ CallWide
    \/ \E response \in Responses, t \in ClockValues : FetchItem(response, t)
    \/ ProcessUpdate
    \/ EndItem
    \/ Return
    \/ Recall
    \/ Tick

SpecRerun == InitRerun /\ [][NextRerun]_vars

\* the two caches and the clock: the generic cache, and the updates of
\* item 101 asked for again and again
InitCache ==
    /\ Init
    /\ upstream[101] = << [state |-> "Active", date |-> <<"T1">>] >>
    /\ upstream[202] = << >>

NextCache ==
    \/ Tick
    \/ \E key \in CacheKeys, result \in CacheValues : CacheResult(key, result)
    \/ \E key \in CacheKeys : Lookup(key)
    \/ \E response \in Responses, t \in ClockValues :
         GetUpdatesCall(101, response, t)

SpecCache == InitCache /\ [][NextCache]_vars

\* the upstream's revisions after the placements (cell, revision) in turn
RECURSIVE Stocked(_, _)
Stocked(stock, placements) ==
    IF placements = <<>> THEN stock
    ELSE LET cell == Head(placements)[1]
             rev == Head(placements)[2]
         IN  Stocked([stock EXCEPT ![cell] = Append(@, rev)],
                     Tail(placements))

\* one scan on a fresh service, over an upstream holding at most
\* MaxRevisions revisions
InitScan ==
    /\ upstream = [i \in Ids |-> <<>>]
    /\ \E n \in 0..MaxRevisions :
         \E placements \in [1..n -> Cells \X RevisionRecords] :
            revisions = Stocked(NoRevisions, placements)
    /\ now = 0
    /\ work_item_updates_cache = << >>
    /\ cache = << >>
    /\ lookup = NoLookup
    /\ calls_since_sleep = 0
    /\ pc = "idle"
    /\ work_item_ids = <<>>
    /\ selected_states = <<>>
    /\ start_date = NoDatetime
    /\ end_date = NoDatetime
    /\ start_utc = 0
    /\ end_utc = 0
    /\ idx = 1
    /\ updates = <<>>
    /\ upos = 1
    /\ state_analysis = InitAnalysis(<<>>)
    /\ processed_items = {}
    /\ source = NoSource
    /\ runs = 0
    /\ previous = NoPrevious
    /\ team_projects = <<>>
    /\ work_item_types = <<>>
    /\ first_date = 1
    /\ end_date_only = 1
    /\ current_date = 1
    /\ project = 1
    /\ requested = NoRequests
    /\ unique_ids = {}
    /\ step2 = NoSource

NextScan ==
    \/ \E projects \in ProjectLists, types \in TypeLists,
          start_day, end_day \in Days :
            ScanCall(projects, types, start_day, end_day)
    \/ \E answer \in {"ok", "error"} : RequestRevisions(answer)
    \/ ScanSleep
    \/ NextDay
    \/ ScanReturn

SpecScan == InitScan /\ [][NextScan]_vars

\* one call with any datetimes, naive or aware, over an upstream that
\* holds one change record
CallDatetimes ==
    \E order \in IdOrders, sd, ed \in Datetimes :
        Call(order, <<"Active">>, sd, ed)

NextWindow ==
    \/ CallDatetimes
    \/ \E response \in Responses : FetchItem(response, now)
    \/ ProcessUpdate
    \/ EndItem
    \/ Return

SpecWindow == InitCache /\ [][NextWindow]_vars

\* one run of the analyzer page on a fresh service while time passes
NextPage ==
    \/ \E response \in Responses, t \in ClockValues : Step2(response, t)
    \/ Step3(<<"Resolved", "Active">>,
             [wall |-> 1 + HostOffset, aware |-> FALSE, offset |-> 0],
             [wall |-> 2 + HostOffset, aware |-> FALSE, offset |-> 0])
    \/ \E response \in Responses, t \in ClockValues : FetchItem(response, t)
    \/ ProcessUpdate
    \/ EndItem
    \/ Return
    \/ Tick

SpecPage == InitCache /\ [][NextPage]_vars

\* one call over an upstream that may also never answer a request; the
\* program is one thread that runs on while it has a step to take
NextSilent ==
    \/ CallWide
    \/ \E response \in Responses : FetchItem(response, now)
    \/ FetchItemSilent
    \/ ProcessUpdate
    \/ EndItem
    \/ Return

SpecSilent == InitRerun /\ [][NextSilent]_vars /\ WF_vars(NextSilent)


(***************************************************************************)
(* Properties.                                                             *)
(***************************************************************************)
SelectedSet == { selected_states[i] : i \in 1..Len(selected_states) }

ZeroEntry == [count |-> 0, items |-> <<>>]

\* the aggregate an holds an entry of item id with the raw date under state
Counted(an, state, id, date) ==
    /\ state \in DOMAIN an
    /\ \E i \in 1..Len(an[state].items) :
         an[state].items[i].id = id /\ an[state].items[i].date = date

\* the aggregate holds some entry of item id
Contributes(an, id) ==
    \E st \in DOMAIN an : \E i \in 1..Len(an[st].items) : an[st].items[i].id = id

\* the updates of item id reached this run
Fetched(id) == source[id] \in {"ok", "ok_no_details", "cache"}

\* the change records of the items whose updates reached this run, as
\* <<id, record>>
Records ==
    UNION { { <<id, upstream[id][k]>> : k \in 1..Len(upstream[id]) } :
              id \in { i \in Ids : Fetched(i) } }

\* those that report a selected state at a date that parses, and the second
\* each parses to
Transitions ==
    { r \in Records : r[2].state \in SelectedSet /\ ParseDate(r[2].date).ok }
TimeOf(r) == ParseDate(r[2].date).t

\* C1: window inclusivity.  When a call over a window start_utc <= end_utc
\* has returned, every change record of a fetched item with a selected new
\* state whose parsed time equals start_utc or end_utc has an entry in the
\* aggregate, and one whose parsed time is start_utc - 1 or end_utc + 1 has
\* none.
C1_WindowInclusive ==
    (pc = "done" /\ start_utc <= end_utc) =>
        \A r \in Transitions :
            /\ (TimeOf(r) = start_utc \/ TimeOf(r) = end_utc)
                  => Counted(state_analysis, r[2].state, r[1], r[2].date)
            /\ (TimeOf(r) = start_utc - 1 \/ TimeOf(r) = end_utc + 1)
                  => ~Counted(state_analysis, r[2].state, r[1], r[2].date)

\* a returned call in which one record at end_utc is counted and one record
\* a second after end_utc is not
C1_Witness ==
    /\ pc = "done"
    /\ start_utc <= end_utc
    /\ \E r \in Transitions :
         /\ TimeOf(r) = end_utc
         /\ Counted(state_analysis, r[2].state, r[1], r[2].date)
    /\ \E r \in Transitions :
         /\ TimeOf(r) = end_utc + 1
         /\ ~Counted(state_analysis, r[2].state, r[1], r[2].date)

\* C2: dedup.  At every point of a run no two entries of one state's items
\* list share (id, new_state, raw date): every triple has at most one entry.
C2_NoDuplicateKeys ==
    \A st \in DOMAIN state_analysis :
        \A i, j \in 1..Len(state_analysis[st].items) :
            LET a == state_analysis[st].items[i]
                b == state_analysis[st].items[j]
            IN  (a.id = b.id /\ a.new_state = b.new_state /\ a.date = b.date)
                    => i = j

\* a returned call over an item whose updates hold the same in-window
\* record twice, counted once
C2_Witness ==
    /\ pc = "done"
    /\ \E id \in Ids :
         /\ Fetched(id)
         /\ Len(upstream[id]) = 2
         /\ upstream[id][1] = upstream[id][2]
         /\ <<id, upstream[id][1]>> \in Transitions
         /\ Counted(state_analysis, upstream[id][1].state, id,
                    upstream[id][1].date)
         /\ state_analysis[upstream[id][1].state].count = 1

\* C3: state-set closure.  From the call on, the keys of the aggregate are
\* exactly the selected states, and a selected state that no change record
\* of the upstream reports has count 0 and no items.
C3_KeysAreSelectedStates ==
    pc # "idle" =>
        /\ DOMAIN state_analysis = SelectedSet
        /\ \A st \in SelectedSet :
             (\A id \in Ids : \A k \in 1..Len(upstream[id]) :
                  upstream[id][k].state # st)
                => state_analysis[st] = ZeroEntry

\* a returned call that selected Resolved and Active over data reporting
\* only Active, with Active counted
C3_Witness ==
    /\ pc = "done"
    /\ SelectedSet = {"Resolved", "Active"}
    /\ \A id \in Ids : \A k \in 1..Len(upstream[id]) :
         upstream[id][k].state # "Resolved"
    /\ state_analysis["Active"].count > 0
    /\ state_analysis["Resolved"] = ZeroEntry

\* C4: state filter.  No entry of the aggregate has a new state outside the
\* selected states, and the step that examines a record whose new state is
\* not selected leaves the aggregate and the key set as they are and goes on
\* to the next record.
C4_UnselectedIgnored ==
    /\ [](\A st \in DOMAIN state_analysis :
            \A i \in 1..Len(state_analysis[st].items) :
                state_analysis[st].items[i].new_state \in SelectedSet)
    /\ [][ (pc = "update" /\ upos <= Len(updates)
                /\ updates[upos].state \notin SelectedSet)
             => (/\ state_analysis' = state_analysis
                 /\ processed_items' = processed_items
                 /\ pc' = "update") ]_vars

\* a record reporting the unselected state Resolved at a time inside the
\* window has just been examined
C4_Witness ==
    /\ pc = "update"
    /\ upos > 1
    /\ upos <= Len(updates) + 1
    /\ updates[upos - 1].state = "Resolved"
    /\ "Resolved" \notin SelectedSet
    /\ "Active" \in SelectedSet
    /\ ParseDate(updates[upos - 1].date).ok
    /\ start_utc <= ParseDate(updates[upos - 1].date).t
    /\ ParseDate(updates[upos - 1].date).t <= end_utc

\* C5: partial failure.  The call never raises; an item whose fetch failed
\* has no entry in the aggregate; when the call has returned, every record
\* of a fetched item with a selected state and a parsed time inside the
\* window has its entry; and when every fetch failed the aggregate returned
\* is the all-zero one.
C5_FailedFetchTolerated ==
    /\ pc # "raised"
    /\ \A id \in Ids : source[id] = "failed" => ~Contributes(state_analysis, id)
    /\ pc = "done" =>
         /\ \A r \in Transitions :
              (start_utc <= TimeOf(r) /\ TimeOf(r) <= end_utc)
                 => Counted(state_analysis, r[2].state, r[1], r[2].date)
         /\ (\A i \in 1..Len(work_item_ids) :
                 source[work_item_ids[i]] = "failed")
              => state_analysis = [st \in SelectedSet |-> ZeroEntry]

\* a returned call in which the first item's fetch failed, although the
\* upstream holds an in-window record of it, and the second item is counted
C5_Witness ==
    /\ pc = "done"
    /\ Len(work_item_ids) = 2
    /\ source[work_item_ids[1]] = "failed"
    /\ Fetched(work_item_ids[2])
    /\ Contributes(state_analysis, work_item_ids[2])
    /\ \E k \in 1..Len(upstream[work_item_ids[1]]) :
         LET u == upstream[work_item_ids[1]][k]
         IN  /\ u.state \in SelectedSet
             /\ ParseDate(u.date).ok
             /\ start_utc <= ParseDate(u.date).t
             /\ ParseDate(u.date).t <= end_utc


\* C6: cold and warm cache.  When a call has returned and each item's
\* updates came from the cache or came the way they came in the call before
\* (same answer of the upstream), the aggregate equals the one the call
\* before returned: same counts, same items, same order.
C6_RerunIdentical ==
    (/\ pc = "done"
     /\ previous.set
     /\ \A id \in Ids :
          source[id] = "cache" \/ source[id] = previous.source[id])
        => state_analysis = previous.result

\* the second call has returned, every item served from the cache the first
\* call filled, two entries (with their details) counted under Active
C6_Witness ==
    /\ pc = "done"
    /\ runs = 2
    /\ previous.set
    /\ \A id \in Ids : source[id] = "cache" /\ previous.source[id] = "ok"
    /\ state_analysis["Active"].count = 2
    /\ state_analysis["Active"].items[1].project = "Proj"
    /\ state_analysis = previous.result

\* C7: cache freshness.  _get_cached_result returns the stored result if and
\* only if the key has an entry and now - timestamp < cache_duration, and
\* None otherwise; get_work_item_updates returns the cached updates, asking
\* nothing of the upstream, if and only if the item has an entry and
\* now - timestamp < cache_duration.
C7_CacheFreshness ==
    [][ /\ lookup' # lookup =>
             lookup'.value =
                 IF /\ lookup'.key \in DOMAIN cache
                    /\ now - cache[lookup'.key].timestamp < cache_duration
                 THEN cache[lookup'.key].result
                 ELSE NONE
        /\ \A id \in Ids :
             source'[id] # source[id] =>
                 LET fresh ==
                       /\ id \in DOMAIN work_item_updates_cache
                       /\ now - work_item_updates_cache[id].timestamp
                              < cache_duration
                 IN  /\ (source'[id] = "cache") <=> fresh
                     /\ fresh =>
                          /\ updates' = work_item_updates_cache[id].updates
                          /\ work_item_updates_cache' = work_item_updates_cache
      ]_vars

\* exactly cache_duration after both entries were stored, a lookup has
\* returned None and a request for the updates of item 101 has gone to the
\* upstream (and failed) instead of being served from its entry
C7_Witness ==
    /\ lookup.at = now
    /\ lookup.key \in DOMAIN cache
    /\ now - cache[lookup.key].timestamp = cache_duration
    /\ lookup.value = NONE
    /\ 101 \in DOMAIN work_item_updates_cache
    /\ now - work_item_updates_cache[101].timestamp = cache_duration
    /\ source[101] = "failed"

\* C8 as stated: a call with no selected state, or with the window's end
\* before its start, raises (it never returns), and a call raises in no
\* other case.
C8_RaisesOnPrecondition ==
    /\ pc = "done" => (selected_states # <<>> /\ start_utc <= end_utc)
    /\ pc = "raised" => (selected_states = <<>> \/ end_utc < start_utc)

\* C8 amended: analyze_state_changes never raises, whatever the data and
\* the fetch failures; with no selected state it returns the empty
\* aggregate, and with the window's end before its start it returns the
\* all-zero aggregate.
C8_NeverRaises ==
    /\ pc # "raised"
    /\ (pc = "done" /\ selected_states = <<>>) => DOMAIN state_analysis = {}
    /\ (pc = "done" /\ end_utc < start_utc)
          => state_analysis = [st \in SelectedSet |-> ZeroEntry]

\* a call over a window whose end is before its start has returned, the
\* data holding a selected transition at start_utc
C8_Witness ==
    /\ pc = "done"
    /\ end_utc < start_utc
    /\ selected_states # <<>>
    /\ \E r \in Transitions : TimeOf(r) = start_utc
    /\ state_analysis = [st \in SelectedSet |-> ZeroEntry]

\* C9 as stated: a call in which every fetch failed and a call in which
\* every fetch succeeded do not return the same aggregate.
C9_FailureDistinguishable ==
    (/\ pc = "done"
     /\ previous.set
     /\ \A id \in Ids : previous.source[id] = "failed"
     /\ \A id \in Ids : source[id] \in {"ok", "ok_no_details"})
        => state_analysis # previous.result

\* the raw dates of DateStrs that strptime rejects
MalformedDates == { d \in DateStrs : \E i \in 1..Len(d) : d[i] = "x" }

\* the updates get_work_item_updates returned for item id in this run
Served(id) ==
    CASE source[id] = "ok" -> Enrich(upstream[id], "details")
      [] source[id] = "ok_no_details" -> Enrich(upstream[id], "empty")
      [] source[id] = "cache" -> work_item_updates_cache[id].updates
      [] OTHER -> <<>>

WithoutMalformed(ups) ==
    SelectSeq(ups, LAMBDA u : u.date \notin MalformedDates)

\* C10: malformed dates.  The call never raises, and the aggregate it
\* returns is the one it would return had the records with an unparseable
\* StateChangeDate not been in the updates at all.
C10_MalformedDateSkipped ==
    /\ pc # "raised"
    /\ pc = "done" =>
         state_analysis =
             Reconcile(work_item_ids,
                       [id \in Ids |-> WithoutMalformed(Served(id))],
                       selected_states, start_utc, end_utc)

\* a returned call over an item whose first record has a selected state and
\* an unparseable date and whose second record is counted
C10_Witness ==
    /\ pc = "done"
    /\ \E id \in Ids :
         /\ Fetched(id)
         /\ Len(upstream[id]) = 2
         /\ upstream[id][1].date \in MalformedDates
         /\ upstream[id][1].state \in SelectedSet
         /\ Counted(state_analysis, upstream[id][2].state, id,
                    upstream[id][2].date)

\* C11: termination.  Every call of analyze_state_changes over a finite id
\* set returns, also when the upstream never answers a request: once the
\* loop over the items has begun, the call reaches its return.
C11_AlwaysTerminates == (pc = "item") ~> (pc = "done")

\* the entry of item id was created or replaced by this step
EntryWritten(id) ==
    /\ id \in DOMAIN work_item_updates_cache'
    /\ \/ id \notin DOMAIN work_item_updates_cache
       \/ work_item_updates_cache'[id] # work_item_updates_cache[id]

\* C12: frame of the updates cache.  A step creates or replaces the entry
\* of an item only when that item's updates request has just succeeded,
\* and the entry holds the updates returned and the time of the answer; a
\* failed request returns the empty list and changes no entry; and the
\* call for an item after a failed one (step 3 of the page after step 2)
\* does not serve the item from the cache.
C12_CacheWrittenOnSuccessOnly ==
    /\ [][ \A id \in Ids :
             /\ EntryWritten(id) =>
                  /\ source[id] = "none"
                  /\ source'[id] \in {"ok", "ok_no_details"}
                  /\ work_item_updates_cache'[id] =
                         [updates |-> updates', timestamp |-> now']
             /\ (source[id] = "none" /\ source'[id] = "failed") =>
                  /\ updates' = <<>>
                  /\ work_item_updates_cache' = work_item_updates_cache
         ]_vars
    /\ [](\A id \in Ids : step2[id] = "failed" => source[id] # "cache")

\* the request for item 101, failed in step 2 of the page, has gone to the
\* upstream again in step 3 and filled the cache, and the request for item
\* 202 has failed in step 3 over an expired entry, which is still there
C12_Witness ==
    /\ pc = "done"
    /\ step2[101] = "failed"
    /\ source[101] = "ok"
    /\ 101 \in DOMAIN work_item_updates_cache
    /\ step2[202] = "ok"
    /\ source[202] = "failed"
    /\ 202 \in DOMAIN work_item_updates_cache
    /\ now - work_item_updates_cache[202].timestamp >= cache_duration

\* the second of the UTC clock at which the datetime d falls: a naive d
\* reads the host's clock, an aware d the clock of its own offset
UtcInstant(d) ==
    IF d.aware THEN d.wall - d.offset ELSE d.wall - HostOffset

\* C13: the window.  From the call on, start_utc is the UTC instant of the
\* start datetime and end_utc the UTC instant of the end datetime, a naive
\* datetime being read in the host zone and an aware one keeping its
\* instant whatever its offset.
C13_WindowIsUtcInstants ==
    pc # "idle" =>
        /\ start_utc = UtcInstant(start_date)
        /\ end_utc = UtcInstant(end_date)

\* a returned call whose start is an aware datetime of offset 0 and whose
\* end is a naive datetime: the window is the seconds 1 to 2 and the record
\* of second 1 is counted
C13_Witness ==
    /\ pc = "done"
    /\ start_date = [wall |-> 1, aware |-> TRUE, offset |-> 0]
    /\ ~end_date.aware
    /\ end_date.wall = 2 + HostOffset
    /\ start_utc = 1
    /\ end_utc = 2
    /\ state_analysis["Active"].count = 1

\* the items whose iteration of the outer loop has begun
ProcessedIds ==
    { work_item_ids[k] : k \in { j \in 1..Len(work_item_ids) : j <= idx } }

\* C14: entries and change records.  Every entry of the items list under a
\* key s carries new_state = s and the id of a work item the loop has
\* processed, that item has a change record with System.State new value s
\* and the entry's StateChangeDate, and no other entry of the list stands
\* for the same record.
C14_EntriesMatchRecords ==
    \A s \in DOMAIN state_analysis :
        LET items == state_analysis[s].items
        IN  \A i \in 1..Len(items) :
              /\ items[i].new_state = s
              /\ items[i].id \in ProcessedIds
              /\ <<items[i].id, [state |-> s, date |-> items[i].date]>>
                     \in Transitions
              /\ \A j \in 1..Len(items) :
                    (items[j].id = items[i].id /\ items[j].date = items[i].date)
                        => j = i

\* a returned call with an entry of item 101 under Resolved and an entry of
\* item 202 under Active
C14_Witness ==
    /\ pc = "done"
    /\ DOMAIN state_analysis = {"Active", "Resolved"}
    /\ \E i \in 1..Len(state_analysis["Resolved"].items) :
         state_analysis["Resolved"].items[i].id = 101
    /\ \E i \in 1..Len(state_analysis["Active"].items) :
         state_analysis["Active"].items[i].id = 202

\* the pairs of change records of one fetched item that report the same
\* selected state at the same parsed second inside the window, as
\* <<id, first record, second record>>
SameInstantPairs ==
    { p \in UNION { { <<id, upstream[id][k1], upstream[id][k2]>> :
                        k1, k2 \in 1..Len(upstream[id]) } :
                      id \in { i \in Ids : Fetched(i) } } :
        /\ <<p[1], p[2]>> \in Transitions
        /\ <<p[1], p[3]>> \in Transitions
        /\ p[2].state = p[3].state
        /\ ParseDate(p[2].date).t = ParseDate(p[3].date).t
        /\ IsWithinRange(ParseDate(p[2].date).t, start_utc, end_utc) }

\* the entries of item id under state whose date parses to the second t
EntriesAt(id, state, t) ==
    { i \in 1..Len(state_analysis[state].items) :
        /\ state_analysis[state].items[i].id = id
        /\ ParseDate(state_analysis[state].items[i].date).t = t }

\* C15 as stated: when a call has returned, two change records of one item
\* that report the same selected state at the same instant inside the
\* window, whatever the form of their raw strings, are counted once.
C15_SameInstantCountedOnce ==
    pc = "done" =>
        \A p \in SameInstantPairs :
            Cardinality(EntriesAt(p[1], p[2].state, ParseDate(p[2].date).t)) = 1

\* the raw strings in which the records of item id report state at the
\* second t
RawDatesAt(id, state, t) ==
    { r[2].date : r \in { q \in Transitions :
                            /\ q[1] = id
                            /\ q[2].state = state
                            /\ TimeOf(q) = t } }

\* C15 amended: such records are counted once for each raw string they
\* write the instant in: once when their raw strings are the same, twice
\* when two raw strings differ.
C15_SameRawDateCountedOnce ==
    pc = "done" =>
        \A p \in SameInstantPairs :
            LET t == ParseDate(p[2].date).t
            IN  Cardinality(EntriesAt(p[1], p[2].state, t))
                  = Cardinality(RawDatesAt(p[1], p[2].state, t))

\* a returned call over an item with two Active records of second 1, one
\* written '...:01' and one '...:01.0Z': both are counted
C15_Witness ==
    /\ pc = "done"
    /\ \E id \in Ids :
         /\ Fetched(id)
         /\ Len(upstream[id]) = 2
         /\ upstream[id][1] = [state |-> "Active", date |-> <<"T1">>]
         /\ upstream[id][2] =
                [state |-> "Active", date |-> <<"T1", ".", "0", "Z">>]
         /\ "Active" \in SelectedSet
         /\ IsWithinRange(1, start_utc, end_utc)
         /\ Cardinality(EntriesAt(id, "Active", 1)) = 2

\* the triples (id, state, raw date) of the change records of the fetched
\* items that report state at a date that parses and falls in the window
QualifyingKeys(state) ==
    { <<r[1], state, r[2].date>> :
        r \in { q \in Transitions :
                  /\ q[2].state = state
                  /\ IsWithinRange(TimeOf(q), start_utc, end_utc) } }

\* C16: the counts.  When a call has returned, the count of every selected
\* state is the number of distinct triples (id, state, raw date) among
\* the change records of the fetched items that report that state at a
\* present, parseable date inside the window.
C16_CountIsDistinctTransitions ==
    pc = "done" =>
        \A s \in SelectedSet :
            state_analysis[s].count = Cardinality(QualifyingKeys(s))

\* a returned call that counted two transitions to Active, one of each
\* item, and none to Resolved
C16_Witness ==
    /\ pc = "done"
    /\ SelectedSet = {"Active", "Resolved"}
    /\ Cardinality(QualifyingKeys("Active")) = 2
    /\ state_analysis["Active"].count = 2
    /\ state_analysis["Resolved"].count = 0
    /\ \A id \in Ids : Len(upstream[id]) = 1

\* C17: records without a date.  A step of the inner loop over a change
\* record that reports a selected state and has no StateChangeDate field,
\* or one without a new value, changes no count and no items list, raises
\* nothing and goes on to the next record.
C17_NoDateDropped ==
    [][ (/\ pc = "update"
         /\ upos <= Len(updates)
         /\ updates[upos].state \in SelectedSet
         /\ updates[upos].date = <<>>)
            => /\ state_analysis' = state_analysis
               /\ pc' = "update"
               /\ upos' = upos + 1
      ]_vars

\* a returned call over an item whose first record reports a selected state
\* without a date and whose second record is counted
C17_Witness ==
    /\ pc = "done"
    /\ \E id \in Ids :
         /\ Fetched(id)
         /\ Len(upstream[id]) = 2
         /\ upstream[id][1].state \in SelectedSet
         /\ upstream[id][1].date = <<>>
         /\ Counted(state_analysis, upstream[id][2].state, id,
                    upstream[id][2].date)
         /\ \A s \in SelectedSet : state_analysis[s].count <= 1

\* the (project, day) pairs the scan in progress covers
ScanCells ==
    { c \in Cells :
        /\ \E i \in 1..Len(team_projects) : team_projects[i] = c[1]
        /\ first_date <= c[2]
        /\ c[2] <= end_date_only }

\* the revisions of cell c that carry a System.Id and a type of
\* work_item_types
WantedRevisions(c) ==
    { revisions[c][k] : k \in { j \in 1..Len(revisions[c]) :
        /\ revisions[c][j].type \in
               { work_item_types[i] : i \in 1..Len(work_item_types) }
        /\ revisions[c][j].id # 0 } }

\* C18: the id scan.  When _get_unique_work_item_ids has returned, a
\* request was made for every project of team_projects on every day from
\* start_date to end_date, whatever requests failed, and unique_ids is
\* exactly the set of the System.Id values of the revisions of a type of
\* work_item_types in the answers of the requests that succeeded.
C18_UniqueIdsOfAnsweredCells ==
    pc = "scan_done" =>
        /\ \A c \in ScanCells : requested[c] # "none"
        /\ unique_ids =
              { r.id : r \in UNION { WantedRevisions(c) :
                           c \in { d \in ScanCells : requested[d] = "ok" } } }

\* a returned scan of two projects over two days whose first request
\* failed, item 101 being a Bug in the answers for P1 and for P2 on day 2:
\* it is in unique_ids once
C18_Witness ==
    /\ pc = "scan_done"
    /\ requested[<<"P1", 1>>] = "error"
    /\ requested[<<"P1", 2>>] = "ok"
    /\ requested[<<"P2", 2>>] = "ok"
    /\ revisions[<<"P1", 2>>] = << [type |-> "Bug", id |-> 101] >>
    /\ revisions[<<"P2", 2>>] = << [type |-> "Bug", id |-> 101] >>
    /\ unique_ids = {101}

\* C19: rate limiting.  No two outbound calls of the revision scan or of
\* the per-item retrieval follow one another without a rate-limiting sleep
\* between them, also when the first of the two failed.
C19_DelayBetweenCalls == calls_since_sleep <= 1

\* step 3 obtains the updates of item id in this step
Step3Fetches(id) ==
    /\ pc = "item"
    /\ \A i \in Ids : step2[i] # "none"
    /\ source[id] = "none"
    /\ source'[id] # "none"

KeysOf(state) == { k \in processed_items : k[2] = state }

\* the list a is the beginning of the list b
IsPrefix(a, b) == Len(a) <= Len(b) /\ SubSeq(b, 1, Len(a)) = a

\* C21: counts, items and keys.  In every state of a run, the count of
\* each state of the aggregate is the length of its items list and the
\* number of dedup keys recorded for it; and no step of the run lowers a
\* count or changes an items list otherwise than by appending to it.
C21_CountIsItemsIsKeys ==
    /\ [](\A s \in DOMAIN state_analysis :
            /\ state_analysis[s].count = Len(state_analysis[s].items)
            /\ state_analysis[s].count = Cardinality(KeysOf(s)))
    /\ [][ \A s \in DOMAIN state_analysis :
             /\ s \in DOMAIN state_analysis'
             /\ state_analysis'[s].count >= state_analysis[s].count
             /\ IsPrefix(state_analysis[s].items, state_analysis'[s].items)
         ]_vars

\* a returned call with two entries and two keys under Active
C21_Witness ==
    /\ pc = "done"
    /\ "Active" \in DOMAIN state_analysis
    /\ state_analysis["Active"].count = 2
    /\ Len(state_analysis["Active"].items) = 2
    /\ Cardinality(KeysOf("Active")) = 2
    /\ state_analysis["Active"].items[1].id = 101
    /\ state_analysis["Active"].items[2].id = 202

\* the entry of item id is expired
Expired(id) ==
    /\ id \in DOMAIN work_item_updates_cache
    /\ now - work_item_updates_cache[id].timestamp >= cache_duration

\* C22: expired entries.  An expired entry stays expired until it is
\* replaced, and a call of get_work_item_updates for its item is not
\* served from it: when the request succeeds the call returns the updates
\* just fetched and stores them with the time of the answer, and when the
\* request fails it returns the empty list and leaves the cache as it is.
C22_ExpiredEntryNotServed ==
    [][ \A id \in Ids :
          Expired(id) =>
            /\ \/ EntryWritten(id)
               \/ /\ id \in DOMAIN work_item_updates_cache'
                  /\ now' - work_item_updates_cache'[id].timestamp
                         >= cache_duration
            /\ source'[id] # source[id] =>
                 /\ source'[id] # "cache"
                 /\ source'[id] \in {"ok", "ok_no_details"} =>
                      /\ updates' =
                            Enrich(upstream[id],
                                   GetWorkItemDetails(source'[id]))
                      /\ work_item_updates_cache'[id] =
                            [updates |-> updates', timestamp |-> now']
                 /\ source'[id] = "failed" =>
                      /\ updates' = <<>>
                      /\ work_item_updates_cache' = work_item_updates_cache
      ]_vars

\* more than cache_duration after the entry of item 101 was stored with
\* its details, a call has failed and returned the empty list; the entry
\* is still there
C22_Witness ==
    /\ Expired(101)
    /\ now - work_item_updates_cache[101].timestamp > cache_duration
    /\ work_item_updates_cache[101].updates = Enrich(upstream[101], "details")
    /\ source[101] = "failed"
    /\ updates = <<>>

=============================================================================
